---- MODULE Spec2Model ----
(***************************************************************************)
(* A model of QHashMap (src/qhashmap.hpp): an open-addressing hash table   *)
(* with linear probing, tombstone-free removal and doubling resize.        *)
(*                                                                         *)
(* Keys are 1..NumKeys, the sentinel KeyTraits::null() is 0.  Pointers     *)
(* into the backing array are pairs (allocation, index).  The array the    *)
(* allocator hands out is uninitialised: a value field that was never      *)
(* written holds Indeterminate until the slot becomes visible to the       *)
(* caller, when any value the memory may hold is chosen.                   *)
(***************************************************************************)
EXTENDS Integers, Sequences, FiniteSets, TLC

\* ---------------------------------------------------------------- bounds
NumKeys == 3
NumValues == 2
MaxHash == 3
MaxInitialCapacityLog == 2
NumFillKeys == 7

\* KeyTraits::null(), the key of an empty slot
NullKey == 0
\* what a field holds that was allocated or declared but never written
Indeterminate == -1
kDefaultHashMapCapacity == 8

Keys == 1..NumKeys
Values == 1..NumValues
Hashes == 0..MaxHash

RECURSIVE Pow2(_)
Pow2(n) == IF n = 0 THEN 1 ELSE 2 * Pow2(n - 1)

InitialCapacities == {Pow2(n) : n \in 0..MaxInitialCapacityLog}

\* KeyTraits::hash: any function of the keys; keys are told apart by
\* identity only, so the keys are numbered in the order of their hashes
Monotone(h) == \A j, k \in DOMAIN h : j <= k => h[j] <= h[k]

HashFunctions == {h \in [Keys -> Hashes] : Monotone(h)}

VARIABLES map_, mem, capacity_, occupancy_, hash, last

vars == <<map_, mem, capacity_, occupancy_, hash, last>>

\* ------------------------------------------------------------ primitives
\* a & b on non-negative integers
RECURSIVE BitAnd(_, _)
BitAnd(a, b) ==
  IF a = 0 \/ b = 0 THEN 0
  ELSE (IF a % 2 = 1 /\ b % 2 = 1 THEN 1 ELSE 0) + 2 * BitAnd(a \div 2, b \div 2)

IsPowerOfTwo(c) == BitAnd(c, c - 1) = 0

\* Entry* : a slot of one allocation; NULL is the null pointer
Ptr(a, i) == [arr |-> a, idx |-> i]
NULL == [arr |-> -1, idx |-> -1]

\* the object's fields as one record, now and after a step
Fields(a, m, c, o) == [map_ |-> a, mem |-> m, capacity_ |-> c, occupancy_ |-> o]
Table == Fields(map_, mem, capacity_, occupancy_)
TableNext == Fields(map_', mem', capacity_', occupancy_')

\* ---------------------------------------------------------------- Clear
\* mutant of Clear: occupancy_ is not reset
ClearKeepsOccupancy(t) ==
  [t EXCEPT !.mem = [i \in DOMAIN t.mem |-> [t.mem[i] EXCEPT !.key = NullKey]]]

\* marks every entry empty; the value fields are left as they are
Clear(t) ==
  [t EXCEPT !.mem = [i \in DOMAIN t.mem |-> [t.mem[i] EXCEPT !.key = NullKey]],
            !.occupancy_ = 0]

\* ----------------------------------------------------------- Initialize
\* a fresh allocation a of capacity entries, then Clear()
Initialize(t, capacity, a) ==
  Clear([t EXCEPT
           !.map_ = a,
           !.mem = [i \in 0..(capacity - 1) |->
                      [key |-> Indeterminate, value |-> Indeterminate]],
           !.capacity_ = capacity])

\* ---------------------------------------------------------------- Probe
\* the scan of Probe from slot p; n bounds the number of slots looked at
\* (the loop of the source has no bound: -1 stands for a scan that would
\* not stop)
RECURSIVE ProbeFrom(_, _, _, _, _)
ProbeFrom(t, h, key, p, n) ==
  IF n = 0 THEN -1
  ELSE IF t.mem[p].key # NullKey
          /\ (h[key] # h[t.mem[p].key] \/ key # t.mem[p].key)
       THEN ProbeFrom(t, h, key, IF p + 1 >= t.capacity_ THEN 0 ELSE p + 1, n - 1)
       ELSE p

Probe(t, h, key) ==
  ProbeFrom(t, h, key, BitAnd(h[key], t.capacity_ - 1), t.capacity_ + 1)

\* the number of times the loop of Probe advances p, counted from n; a
\* count above capacity_ stands for a scan that would not stop
RECURSIVE ProbeStepsFrom(_, _, _, _, _)
ProbeStepsFrom(t, h, key, p, n) ==
  IF n > t.capacity_ THEN n
  ELSE IF t.mem[p].key # NullKey
          /\ (h[key] # h[t.mem[p].key] \/ key # t.mem[p].key)
       THEN ProbeStepsFrom(t, h, key, IF p + 1 >= t.capacity_ THEN 0 ELSE p + 1, n + 1)
       ELSE n

ProbeSteps(t, h, key) ==
  ProbeStepsFrom(t, h, key, BitAnd(h[key], t.capacity_ - 1), 0)

\* the store through an Entry*: it reaches the table only when the pointer
\* is into the current array
StoreValue(t, p, v) ==
  IF p.arr = t.map_ /\ p.idx \in DOMAIN t.mem
  THEN [t EXCEPT !.mem[p.idx].value = v]
  ELSE t

\* ------------------------------------------------------ Lookup / Resize
RECURSIVE Lookup(_, _, _, _), Resize(_, _), Rehash(_, _, _, _, _)

\* mutants of NeedsResize: the bound tested with >, without the quarter, at
\* an eighth of the capacity, never, and only past the capacity
NeedsResizeStrict(occupancy, capacity) ==
  occupancy + (occupancy \div 4) > capacity

NeedsResizeNoQuarter(occupancy, capacity) ==
  occupancy >= capacity

NeedsResizeNever(occupancy, capacity) == FALSE

NeedsResizeLate(occupancy, capacity) ==
  occupancy > capacity

NeedsResizeEighth(occupancy, capacity) ==
  occupancy * 8 >= capacity

\* "Grow the map if we reached >= 80% occupancy"
NeedsResize(occupancy, capacity) ==
  occupancy + (occupancy \div 4) >= capacity

\* mutant of Lookup: an inserting Lookup counts a key it finds once more
LookupCountsHit(t, h, key, insert) ==
  LET p == Probe(t, h, key) IN
  IF t.mem[p].key # NullKey
  THEN [t |-> IF insert THEN [t EXCEPT !.occupancy_ = t.occupancy_ + 1] ELSE t,
        ret |-> Ptr(t.map_, p)]
  ELSE IF insert
       THEN LET t1 == [t EXCEPT !.mem[p].key = key,
                                !.occupancy_ = t.occupancy_ + 1]
            IN  IF NeedsResize(t1.occupancy_, t1.capacity_)
                THEN LET t2 == Resize(t1, h)
                     IN  [t |-> t2, ret |-> Ptr(t2.map_, Probe(t2, h, key))]
                ELSE [t |-> t1, ret |-> Ptr(t1.map_, p)]
       ELSE [t |-> t, ret |-> NULL]

\* mutant of Lookup: an inserting Lookup resets the value of a key it finds
LookupResetsValue(t, h, key, insert) ==
  LET p == Probe(t, h, key) IN
  IF t.mem[p].key # NullKey
  THEN [t |-> IF insert THEN [t EXCEPT !.mem[p].value = Indeterminate] ELSE t,
        ret |-> Ptr(t.map_, p)]
  ELSE IF insert
       THEN LET t1 == [t EXCEPT !.mem[p].key = key,
                                !.occupancy_ = t.occupancy_ + 1]
            IN  IF NeedsResize(t1.occupancy_, t1.capacity_)
                THEN LET t2 == Resize(t1, h)
                     IN  [t |-> t2, ret |-> Ptr(t2.map_, Probe(t2, h, key))]
                ELSE [t |-> t1, ret |-> Ptr(t1.map_, p)]
       ELSE [t |-> t, ret |-> NULL]

\* mutant of Lookup: after Resize the entry is not probed for again
LookupStale(t, h, key, insert) ==
  LET p == Probe(t, h, key) IN
  IF t.mem[p].key # NullKey
  THEN [t |-> t, ret |-> Ptr(t.map_, p)]
  ELSE IF insert
       THEN LET t1 == [t EXCEPT !.mem[p].key = key,
                                !.occupancy_ = t.occupancy_ + 1]
            IN  IF NeedsResize(t1.occupancy_, t1.capacity_)
                THEN [t |-> Resize(t1, h), ret |-> Ptr(t1.map_, p)]
                ELSE [t |-> t1, ret |-> Ptr(t1.map_, p)]
       ELSE [t |-> t, ret |-> NULL]

\* result: the table afterwards and the returned Entry*
Lookup(t, h, key, insert) ==
  LET p == Probe(t, h, key) IN
  IF t.mem[p].key # NullKey
  THEN [t |-> t, ret |-> Ptr(t.map_, p)]
  ELSE IF insert
       THEN LET t1 == [t EXCEPT !.mem[p].key = key,
                                !.occupancy_ = t.occupancy_ + 1]
            IN  IF NeedsResize(t1.occupancy_, t1.capacity_)
                THEN LET t2 == Resize(t1, h)
                     IN  [t |-> t2, ret |-> Ptr(t2.map_, Probe(t2, h, key))]
                ELSE [t |-> t1, ret |-> Ptr(t1.map_, p)]
       ELSE [t |-> t, ret |-> NULL]

\* mutant of RehashEntry: the key is re-inserted, the value is not copied
RehashEntryKeyOnly(t, h, e) == Lookup(t, h, e.key, TRUE).t

\* Lookup(p->key, true)->value = p->value, for the old entry e
RehashEntry(t, h, e) ==
  LET r == Lookup(t, h, e.key, TRUE) IN StoreValue(r.t, r.ret, e.value)

\* the rehash loop: p walks the old array map until n entries are re-inserted
Rehash(map, p, n, t, h) ==
  IF n = 0 THEN t
  ELSE IF map[p].key # NullKey
       THEN Rehash(map, p + 1, n - 1, RehashEntry(t, h, map[p]), h)
       ELSE Rehash(map, p + 1, n, t, h)

\* the slots of the old array map that the rehash loop reads, in order; a
\* read outside the array ends the list
RECURSIVE RehashReads(_, _, _)
RehashReads(map, p, n) ==
  IF n = 0 THEN <<>>
  ELSE IF p \notin DOMAIN map THEN <<p>>
       ELSE <<p>> \o RehashReads(map, p + 1, IF map[p].key # NullKey THEN n - 1 ELSE n)

\* mutants of Resize: one entry too few is rehashed; the array grows fourfold
ResizeDropsLast(t, h) ==
  Rehash(t.mem, 0, t.occupancy_ - 1, Initialize(t, t.capacity_ * 2, t.map_ + 1), h)

ResizeQuadruples(t, h) ==
  Rehash(t.mem, 0, t.occupancy_, Initialize(t, t.capacity_ * 4, t.map_ + 1), h)

Resize(t, h) ==
  Rehash(t.mem, 0, t.occupancy_, Initialize(t, t.capacity_ * 2, t.map_ + 1), h)

\* the entries to Probe and to Initialize in the course of one call, in
\* order, each with the table it finds; a Probe that would not return ends
\* the list
ProbeEntry(t, key) == [at |-> "Probe", t |-> t, key |-> key, capacity |-> t.capacity_]
InitializeEntry(t, capacity) ==
  [at |-> "Initialize", t |-> t, key |-> NullKey, capacity |-> capacity]

RECURSIVE LookupEntries(_, _, _, _), RehashEntries(_, _, _, _, _)
LookupEntries(t, h, key, insert) ==
  <<ProbeEntry(t, key)>> \o
  IF ProbeSteps(t, h, key) > t.capacity_ THEN <<>>
  ELSE LET p == Probe(t, h, key) IN
       IF t.mem[p].key # NullKey \/ ~insert THEN <<>>
       ELSE LET t1 == [t EXCEPT !.mem[p].key = key,
                                !.occupancy_ = t.occupancy_ + 1]
            IN  IF NeedsResize(t1.occupancy_, t1.capacity_)
                THEN <<InitializeEntry(t1, t1.capacity_ * 2)>> \o
                     RehashEntries(t1.mem, 0, t1.occupancy_,
                                   Initialize(t1, t1.capacity_ * 2, t1.map_ + 1), h) \o
                     <<ProbeEntry(Resize(t1, h), key)>>
                ELSE <<>>

RehashEntries(map, p, n, t, h) ==
  IF n = 0 THEN <<>>
  ELSE IF map[p].key # NullKey
       THEN LookupEntries(t, h, map[p].key, TRUE) \o
            RehashEntries(map, p + 1, n - 1, RehashEntry(t, h, map[p]), h)
       ELSE RehashEntries(map, p + 1, n, t, h)

\* --------------------------------------------------------------- Remove
\* mutant of MoveTest: the case of q wrapped behind p is missing
MoveTestNoWrap(p, q, r) ==
  q > p /\ (r <= p \/ r > q)

\* mutant of MoveTest: the two cases carry each other's test of r
MoveTestSwapped(p, q, r) ==
  \/ (q > p /\ (r <= p /\ r > q))
  \/ (q < p /\ (r <= p \/ r > q))

\* mutant of MoveTest: r >= q for r > q
MoveTestAtHome(p, q, r) ==
  \/ (q > p /\ (r <= p \/ r >= q))
  \/ (q < p /\ (r <= p /\ r >= q))

\* mutant of MoveTest: r < p for r <= p
MoveTestStrict(p, q, r) ==
  \/ (q > p /\ (r < p \/ r > q))
  \/ (q < p /\ (r < p /\ r > q))

\* the test that moves the entry at q (initial position r) to p
MoveTest(p, q, r) ==
  \/ (q > p /\ (r <= p \/ r > q))
  \/ (q < p /\ (r <= p /\ r > q))

\* mutant of CopyEntry: p->key = q->key only
CopyKey(m, p, q) == [m EXCEPT ![p].key = m[q].key]

\* *p = *q
CopyEntry(m, p, q) == [m EXCEPT ![p] = m[q]]

\* the scan of Remove: p is the candidate to clear, q scans forwards;
\* moves counts the entries copied back
RECURSIVE RemoveScan(_, _, _, _, _)
RemoveScan(m, cap, h, p, q) ==
  LET q1 == IF q + 1 = cap THEN 0 ELSE q + 1 IN
  IF m[q1].key = NullKey
  THEN [mem |-> m, p |-> p, moves |-> 0]
  ELSE LET r == BitAnd(h[m[q1].key], cap - 1) IN
       IF MoveTest(p, q1, r)
       THEN LET s == RemoveScan(CopyEntry(m, p, q1), cap, h, q1, q1)
            IN  [s EXCEPT !.moves = s.moves + 1]
       ELSE RemoveScan(m, cap, h, p, q1)

\* the same scan, step by step: the array, p and q each time the loop is
\* entered, and at the break, where q is the empty slot that ends the scan
RECURSIVE RemoveScanStates(_, _, _, _, _)
RemoveScanStates(m, cap, h, p, q) ==
  LET q1 == IF q + 1 = cap THEN 0 ELSE q + 1 IN
  <<[mem |-> m, p |-> p, q |-> q]>> \o
  IF m[q1].key = NullKey
  THEN <<[mem |-> m, p |-> p, q |-> q1]>>
  ELSE LET r == BitAnd(h[m[q1].key], cap - 1) IN
       IF MoveTest(p, q1, r)
       THEN RemoveScanStates(CopyEntry(m, p, q1), cap, h, q1, q1)
       ELSE RemoveScanStates(m, cap, h, p, q1)

\* mutant of Remove: the slot cleared is the one the key was found in, not
\* the one the scan ended with
RemoveClearsFirst(t, h, key) ==
  LET p == Probe(t, h, key) IN
  IF t.mem[p].key = NullKey
  THEN [t |-> t, ret |-> FALSE, moves |-> 0]
  ELSE LET s == RemoveScan(t.mem, t.capacity_, h, p, p)
       IN  [t |-> [t EXCEPT !.mem = [s.mem EXCEPT ![p].key = NullKey],
                            !.occupancy_ = t.occupancy_ - 1],
            ret |-> TRUE, moves |-> s.moves]

\* mutant of Remove: occupancy_ is not decremented
RemoveKeepsOccupancy(t, h, key) ==
  LET p == Probe(t, h, key) IN
  IF t.mem[p].key = NullKey
  THEN [t |-> t, ret |-> FALSE, moves |-> 0]
  ELSE LET s == RemoveScan(t.mem, t.capacity_, h, p, p)
       IN  [t |-> [t EXCEPT !.mem = [s.mem EXCEPT ![s.p].key = NullKey]],
            ret |-> TRUE, moves |-> s.moves]

\* mutant of Remove: the early return for a key not found is missing
RemoveNoCheck(t, h, key) ==
  LET p == Probe(t, h, key)
      s == RemoveScan(t.mem, t.capacity_, h, p, p)
  IN  [t |-> [t EXCEPT !.mem = [s.mem EXCEPT ![s.p].key = NullKey],
                       !.occupancy_ = t.occupancy_ - 1],
       ret |-> TRUE, moves |-> s.moves]

\* result: the table afterwards and the returned bool
Remove(t, h, key) ==
  LET p == Probe(t, h, key) IN
  IF t.mem[p].key = NullKey
  THEN [t |-> t, ret |-> FALSE, moves |-> 0]
  ELSE LET s == RemoveScan(t.mem, t.capacity_, h, p, p)
       IN  [t |-> [t EXCEPT !.mem = [s.mem EXCEPT ![s.p].key = NullKey],
                            !.occupancy_ = t.occupancy_ - 1],
            ret |-> TRUE, moves |-> s.moves]

\* -------------------------------------------------------- Start / Next
\* Next(p): the index of the next occupied slot after p, -1 for NULL
RECURSIVE NextFrom(_, _)
NextFrom(t, p) ==
  IF p + 1 >= t.capacity_ THEN -1
  ELSE IF t.mem[p + 1].key # NullKey THEN p + 1
       ELSE NextFrom(t, p + 1)

\* mutant of Start: the scan begins after the first slot
StartSkipsFirst(t) == NextFrom(t, 0)

Start(t) == NextFrom(t, -1)

\* for (p = map.Start(); p != NULL; p = map.Next(p)): the slots visited
RECURSIVE IterateFrom(_, _)
IterateFrom(t, p) ==
  IF p = -1 THEN <<>> ELSE <<p>> \o IterateFrom(t, NextFrom(t, p))

Iterate(t) == IterateFrom(t, Start(t))

size(t) == t.occupancy_
capacity(t) == t.capacity_

\* ---------------------------------------------------------------- calls
\* the last call the caller made and what it returned: the Entry* of a
\* Lookup, the bool of a Remove, the value stored through the entry, the
\* number of arrays the call allocated and of entries it moved
Call(op, key, insert, entry, found, value, allocs, moves) ==
  [op |-> op, key |-> key, insert |-> insert, entry |-> entry,
   found |-> found, value |-> value, allocs |-> allocs, moves |-> moves]

\* the entry Lookup hands to the caller: its key was stored but its value
\* was not, so a value field that was never written shows whatever the
\* allocated memory holds (g)
IsUninitialised(t, p) ==
  p.arr = t.map_ /\ p.idx \in DOMAIN t.mem /\ t.mem[p.idx].value = Indeterminate

Uninitialised(t, p, g) ==
  IF IsUninitialised(t, p) THEN StoreValue(t, p, g) ELSE t

\* the values the memory behind p may show to the caller
Garbage(t, p) ==
  IF IsUninitialised(t, p) THEN Values ELSE {Indeterminate}

SetTable(t) ==
  /\ map_' = t.map_
  /\ mem' = t.mem
  /\ capacity_' = t.capacity_
  /\ occupancy_' = t.occupancy_

\* QHashMap map(capacity): the constructor runs Initialize on an object
\* whose fields are not yet written
QHashMap(c, h) ==
  LET t == Initialize([map_ |-> Indeterminate, mem |-> <<>>,
                       capacity_ |-> Indeterminate, occupancy_ |-> Indeterminate],
                      c, 0)
  IN  /\ IsPowerOfTwo(c)
      /\ map_ = t.map_
      /\ mem = t.mem
      /\ capacity_ = t.capacity_
      /\ occupancy_ = t.occupancy_
      /\ hash = h
      /\ last = Call("QHashMap", NullKey, FALSE, NULL, FALSE, Indeterminate, 1, 0)

Init == \E c \in InitialCapacities, h \in HashFunctions : QHashMap(c, h)

\* map.Lookup(key, insert)
LookupCall(key, insert) ==
  LET r == Lookup(Table, hash, key, insert) IN
  \E g \in Garbage(r.t, r.ret) :
    /\ SetTable(Uninitialised(r.t, r.ret, g))
    /\ last' = Call("Lookup", key, insert, r.ret, r.ret # NULL, Indeterminate,
                    r.t.map_ - map_, 0)
    /\ UNCHANGED hash

\* entry->value = v: the store through the entry that the latest Lookup
\* returned
SetValue(v) ==
  /\ last.op \in {"Lookup", "SetValue"}
  /\ last.entry # NULL
  /\ SetTable(StoreValue(Table, last.entry, v))
  /\ last' = [last EXCEPT !.op = "SetValue", !.value = v]
  /\ UNCHANGED hash

\* map.Lookup(key, true)->value = v, one statement of the caller
PutCall(key, v) ==
  LET r == Lookup(Table, hash, key, TRUE) IN
  /\ SetTable(StoreValue(r.t, r.ret, v))
  /\ last' = Call("Put", key, TRUE, r.ret, r.ret # NULL, v, r.t.map_ - map_, 0)
  /\ UNCHANGED hash

\* map.Remove(key)
RemoveCall(key) ==
  LET r == Remove(Table, hash, key) IN
  /\ SetTable(r.t)
  /\ last' = Call("Remove", key, FALSE, NULL, r.ret, Indeterminate, 0, r.moves)
  /\ UNCHANGED hash

\* map.Clear()
ClearCall ==
  /\ SetTable(Clear(Table))
  /\ last' = Call("Clear", NullKey, FALSE, NULL, FALSE, Indeterminate, 0, 0)
  /\ UNCHANGED hash

Next ==
  \/ \E key \in DOMAIN hash, insert \in BOOLEAN : LookupCall(key, insert)
  \/ \E v \in Values : SetValue(v)
  \/ \E key \in DOMAIN hash : RemoveCall(key)
  \/ ClearCall

Spec == Init /\ [][Next]_vars

\* ------------------------------------------------- iterating
\* Entry* p = map.Start()
StartCall ==
  LET i == Start(Table) IN
  /\ last' = Call("Start", NullKey, FALSE, IF i = -1 THEN NULL ELSE Ptr(map_, i),
                  i # -1, Indeterminate, 0, 0)
  /\ UNCHANGED <<map_, mem, capacity_, occupancy_, hash>>

\* p = map.Next(p), for the p that Start or Next returned last
NextCall ==
  /\ last.op \in {"Start", "Next"}
  /\ last.entry # NULL
  /\ last.entry.arr = map_
  /\ LET i == NextFrom(Table, last.entry.idx) IN
     last' = Call("Next", NullKey, FALSE, IF i = -1 THEN NULL ELSE Ptr(map_, i),
                  i # -1, Indeterminate, 0, 0)
  /\ UNCHANGED <<map_, mem, capacity_, occupancy_, hash>>

NextIter ==
  \/ Next
  \/ StartCall
  \/ NextCall

SpecIter == Init /\ [][NextIter]_vars

\* QHashMap map: the constructor's default capacity, beside the small ones
InitDefault ==
  \E c \in InitialCapacities \cup {kDefaultHashMapCapacity},
     h \in HashFunctions : QHashMap(c, h)

SpecDefault == InitDefault /\ [][NextIter]_vars

\* ------------------------------------------------- allocation failure
\* how a call ends when allocator.New cannot provide the array
AllocFailures == {"bad_alloc", "SIGSEGV", "NullArray"}

\* Lookup(key, true) up to the call of Resize: the key is stored in the
\* empty slot that Probe found and occupancy_ is incremented
InsertBeforeResize(t, h, key) ==
  LET p == Probe(t, h, key) IN
  [t EXCEPT !.mem[p].key = key, !.occupancy_ = t.occupancy_ + 1]

\* the inserting Lookup of key reaches Resize
ReachesResize(key) ==
  /\ mem[Probe(Table, hash, key)].key = NullKey
  /\ NeedsResize(occupancy_ + 1, capacity_)

\* map.Lookup(key, true) with QHashMapDefaultAlloc: operator new throws
\* std::bad_alloc inside Initialize, before map_ and capacity_ are assigned
LookupBadAlloc(key) ==
  /\ ReachesResize(key)
  /\ SetTable(InsertBeforeResize(Table, hash, key))
  /\ last' = Call("bad_alloc", key, TRUE, NULL, FALSE, Indeterminate, 0, 0)
  /\ UNCHANGED hash

\* map.Lookup(key, true) with an allocator whose New is malloc: New returns
\* NULL, Initialize assigns it to map_ and Clear stores through it.  The
\* store through NULL is undefined: either it ends the process, or the
\* stores land and Lookup returns an entry of the array at NULL.
LookupNullAlloc(key) ==
  LET t1 == InsertBeforeResize(Table, hash, key) IN
  /\ ReachesResize(key)
  /\ \/ /\ SetTable(Fields(NULL.arr, <<>>, capacity_ * 2, t1.occupancy_))
        /\ last' = Call("SIGSEGV", key, TRUE, NULL, FALSE, Indeterminate, 0, 0)
     \/ LET t2 == [Resize(t1, hash) EXCEPT !.map_ = NULL.arr] IN
        /\ SetTable(t2)
        /\ last' = Call("NullArray", key, TRUE,
                        Ptr(NULL.arr, Probe(t2, hash, key)), TRUE,
                        Indeterminate, 0, 0)
  /\ UNCHANGED hash

\* no call is made on the table after a failed allocation
NextAlloc ==
  \/ last.op \notin AllocFailures /\ Next
  \/ \E key \in DOMAIN hash :
       last.op \notin AllocFailures /\ LookupBadAlloc(key)
  \/ \E key \in DOMAIN hash :
       last.op \notin AllocFailures /\ LookupNullAlloc(key)

SpecAlloc == Init /\ [][NextAlloc]_vars

\* ------------------------------------------------- filling a table
\* the caller only stores: NumFillKeys keys, each with the value FillValue
\* gives it, into a table of any initial capacity up to the default one
FillKeys == 1..NumFillKeys
FillHashes == {0, 2 * kDefaultHashMapCapacity - 1}
FillCapacities == {c \in 1..kDefaultHashMapCapacity : IsPowerOfTwo(c)}
FillValue(key) == (key % NumValues) + 1

InitFill ==
  \E c \in FillCapacities, h \in [FillKeys -> FillHashes] : QHashMap(c, h)

\* keys are numbered in the order in which the caller first stores them
NextFill ==
  \E key \in DOMAIN hash :
    /\ key <= occupancy_ + 1
    /\ PutCall(key, FillValue(key))

SpecFill == InitFill /\ [][NextFill]_vars

\* ============================================================== claims
\* what the caller sees of a table t: the entry Lookup(key,false) returns,
\* whether there is one, and its value
FindIn(t, key) == Lookup(t, hash, key, FALSE).ret
PresentIn(t, key) == FindIn(t, key) # NULL
ValueIn(t, key) == t.mem[FindIn(t, key).idx].value
Find(key) == FindIn(Table, key)
Present(key) == PresentIn(Table, key)
ValueOf(key) == ValueIn(Table, key)
Home(key) == BitAnd(hash[key], capacity_ - 1)

IsInsert(c) == (c.op = "Lookup" /\ c.insert) \/ c.op = "Put"
IsStore(c) == c.op = "SetValue" \/ c.op = "Put"
IsRemoveOf(c, key) == c.op = "Remove" /\ c.key = key
TableUnchanged ==
  /\ map_' = map_
  /\ mem' = mem
  /\ capacity_' = capacity_
  /\ occupancy_' = occupancy_

\* C1: deletion correctness.  A key is found right after it was inserted,
\* and a key that is found stays found over every call other than its own
\* Remove and Clear, so no Remove (with or without relocation) orphans a
\* live key.
C1_LiveKeysStayFound ==
  [][\A k \in DOMAIN hash :
       /\ (IsInsert(last') /\ last'.key = k) => PresentIn(TableNext, k)
       /\ (/\ ~IsRemoveOf(last', k)
           /\ last'.op # "Clear"
           /\ PresentIn(Table, k)) => PresentIn(TableNext, k)]_vars

\* a Remove that moved two entries back, across the end of the array, and
\* left both findable
C1_Witness ==
  /\ last.op = "Remove" /\ last.found /\ last.moves = 2
  /\ occupancy_ = 2
  /\ \A k \in DOMAIN hash : k # last.key => Present(k)
  /\ \E k \in DOMAIN hash : Present(k) /\ Find(k).idx < Home(k)

\* C2: round trip.  The value stored through the entry of K is what
\* Lookup(K,false) shows, and it stays so over every call other than a
\* store to K, Remove(K) and Clear.
C2_RoundTrip ==
  [][\A k \in DOMAIN hash :
       /\ (IsStore(last') /\ last'.key = k)
            => (PresentIn(TableNext, k) /\ ValueIn(TableNext, k) = last'.value)
       /\ (/\ ~(IsStore(last') /\ last'.key = k)
           /\ ~IsRemoveOf(last', k)
           /\ last'.op # "Clear"
           /\ PresentIn(Table, k))
            => (/\ PresentIn(TableNext, k)
                /\ ValueIn(TableNext, k) = ValueIn(Table, k))]_vars

\* two keys hold different values, one of them stored before a resize and
\* the table has since seen a Remove with a relocation
C2_Witness ==
  /\ last.op = "Remove" /\ last.found /\ last.moves >= 1
  /\ map_ >= 1
  /\ \E j, k \in DOMAIN hash :
       /\ Present(j) /\ Present(k)
       /\ ValueOf(j) = 1 /\ ValueOf(k) = 2

\* C3: occupancy < capacity and capacity is a power of two, at least 1
C3_OccupancyBelowCapacity ==
  /\ occupancy_ < capacity_
  /\ capacity_ >= 1
  /\ \E n \in 0..(MaxInitialCapacityLog + NumKeys) : capacity_ = Pow2(n)

\* a table built with capacity 1 that grew twice and holds capacity - 1 keys
C3_Witness ==
  /\ IsInsert(last)
  /\ map_ = 2
  /\ capacity_ = 4
  /\ occupancy_ = capacity_ - 1

\* C4: after every inserting Lookup the load is below the bound, hence at
\* most 80%, and the insert at most doubled the capacity once
C4_LoadFactor ==
  [][IsInsert(last') =>
       /\ occupancy_' + (occupancy_' \div 4) < capacity_'
       /\ 5 * occupancy_' <= 4 * capacity_'
       /\ capacity_' \in {capacity_, 2 * capacity_}]_vars

\* the insert that takes a table of capacity 8 to capacity 16
C4_Witness ==
  /\ IsInsert(last) /\ last.allocs = 1
  /\ capacity_ = 2 * kDefaultHashMapCapacity
  /\ occupancy_ = 7

\* C5: Remove of a present key returns true, takes one off size(), makes
\* the key absent and leaves every other key present with its value
C5_RemovePresent ==
  [][\A k \in DOMAIN hash :
       (IsRemoveOf(last', k) /\ PresentIn(Table, k)) =>
         /\ last'.found
         /\ occupancy_' = occupancy_ - 1
         /\ ~PresentIn(TableNext, k)
         /\ \A j \in DOMAIN hash \ {k} :
              PresentIn(Table, j) =>
                (/\ PresentIn(TableNext, j)
                 /\ ValueIn(TableNext, j) = ValueIn(Table, j))]_vars

\* a Remove that moved an entry whose value differs from the removed one's
C5_Witness ==
  /\ last.op = "Remove" /\ last.found /\ last.moves >= 1
  /\ occupancy_ = 2
  /\ \E j, k \in DOMAIN hash :
       Present(j) /\ Present(k) /\ ValueOf(j) # ValueOf(k)

Occupied(m) == {i \in DOMAIN m : m[i].key # NullKey}

\* C6: an insert that resizes keeps every pair stored before it, holds the
\* new key, and adds exactly one entry
C6_ResizePreservesContents ==
  [][(IsInsert(last') /\ map_' # map_) =>
       /\ \A j \in DOMAIN hash :
            PresentIn(Table, j) =>
              (/\ PresentIn(TableNext, j)
               /\ ValueIn(TableNext, j) = ValueIn(Table, j))
       /\ PresentIn(TableNext, last'.key)
       /\ occupancy_' = occupancy_ + 1
       /\ Cardinality(Occupied(mem')) = Cardinality(Occupied(mem)) + 1]_vars

\* the resize from 4 to 8 slots of a table whose keys collide and hold
\* different values
C6_Witness ==
  /\ IsInsert(last) /\ last.allocs = 1
  /\ capacity_ = 8 /\ occupancy_ = 4
  /\ \E j, k \in DOMAIN hash :
       /\ Present(j) /\ Present(k) /\ ValueOf(j) # ValueOf(k)
       /\ Find(j).idx # Home(j)

\* C7: an insert of a new key changes the capacity exactly when the new
\* occupancy o has o + o/4 >= capacity, and then to twice the capacity with
\* one allocation; a table of capacity 8 keeps it up to 6 keys and has
\* capacity 16 with the 7th
C7_ResizeExactlyAtThreshold ==
  [][\A k \in DOMAIN hash :
       (IsInsert(last') /\ last'.key = k /\ ~PresentIn(Table, k)) =>
         LET o == occupancy_ + 1 IN
         /\ (o + (o \div 4) >= capacity_) <=> (capacity_' # capacity_)
         /\ (capacity_' # capacity_) =>
              (capacity_' = 2 * capacity_ /\ last'.allocs = 1)
         /\ (capacity_' = capacity_) => (last'.allocs = 0 /\ map_' = map_)
         /\ (capacity_ = kDefaultHashMapCapacity /\ o <= 6) => capacity_' = 8
         /\ (capacity_ = kDefaultHashMapCapacity /\ o = 7) => capacity_' = 16]_vars

\* the 7th key of a table built with the default capacity
C7_Witness ==
  /\ IsInsert(last) /\ last.allocs = 1
  /\ map_ = 1
  /\ capacity_ = 16
  /\ occupancy_ = 7

\* C8: the entry an inserting Lookup returns is a slot of the current array
\* that holds the key
C8_EntryIsCurrent ==
  (last.op = "Lookup" /\ last.insert) =>
    /\ last.entry.arr = map_
    /\ last.entry.idx \in DOMAIN mem
    /\ mem[last.entry.idx].key = last.key

\* an insert that resized and whose key is not in its home slot of the
\* new array
C8_Witness ==
  /\ last.op = "Lookup" /\ last.insert /\ last.allocs = 1
  /\ last.entry.arr = map_
  /\ last.entry.idx # Home(last.key)

\* C9: Lookup(K,false) and Remove(K) of an absent key return NULL and false
\* and change nothing
C9_NotFoundChangesNothing ==
  [][/\ (last'.op = "Lookup" /\ ~last'.insert /\ ~PresentIn(Table, last'.key))
          => (last'.entry = NULL /\ ~last'.found /\ TableUnchanged)
     /\ (last'.op = "Remove" /\ ~PresentIn(Table, last'.key))
          => (~last'.found /\ TableUnchanged)]_vars

\* a Remove of an absent key whose probe passed two occupied slots
C9_Witness ==
  /\ last.op = "Remove" /\ ~last.found
  /\ occupancy_ = 2
  /\ mem[Home(last.key)].key # NullKey
  /\ mem[(Home(last.key) + 1) % capacity_].key # NullKey

\* C10: after Clear the table is empty for size(), Lookup and Start, the
\* array and its capacity are the ones before, and a second Clear changes
\* nothing
C10_Clear ==
  [][last'.op = "Clear" =>
       /\ occupancy_' = 0
       /\ \A k \in DOMAIN hash : ~PresentIn(TableNext, k)
       /\ Start(TableNext) = -1
       /\ capacity_' = capacity_
       /\ map_' = map_
       /\ DOMAIN mem' = DOMAIN mem
       /\ LET again == Clear(TableNext) IN
          /\ \A i \in DOMAIN mem' : again.mem[i] = mem'[i]
          /\ again.occupancy_ = occupancy_'
          /\ again.capacity_ = capacity_'
          /\ again.map_ = map_']_vars

\* a Clear of a table that grew twice and had values stored
C10_Witness ==
  /\ last.op = "Clear"
  /\ map_ = 2
  /\ \E i, j \in DOMAIN mem : mem[i].value = 1 /\ mem[j].value = 2

\* C11: Start and Next visit the occupied slots in increasing order, each
\* once, then return NULL; the number visited is size(), and Start returns
\* NULL exactly when the table is empty
C11_Iteration ==
  [][LET seq == Iterate(TableNext)
         EntryAt(n) == IF n > Len(seq) THEN NULL ELSE Ptr(map_', seq[n])
     IN  /\ Len(seq) = occupancy_'
         /\ \A n \in 1..(Len(seq) - 1) : seq[n] < seq[n + 1]
         /\ {seq[n] : n \in 1..Len(seq)} = Occupied(mem')
         /\ last'.op = "Start" =>
              /\ last'.entry = EntryAt(1)
              /\ (last'.entry = NULL) <=> (occupancy_' = 0)
              /\ TableUnchanged
         /\ last'.op = "Next" =>
              /\ \E n \in 1..Len(seq) :
                   /\ last.entry = EntryAt(n)
                   /\ last'.entry = EntryAt(n + 1)
              /\ TableUnchanged]_vars

\* an iteration that has returned three entries and then NULL, over a table
\* whose first slot is empty
C11_Witness ==
  /\ last.op = "Next" /\ last.entry = NULL
  /\ occupancy_ = 3
  /\ mem[0].key = NullKey

\* a slot of m holds key (found by inspecting the array, not by Probe)
Stored(m, key) == \E i \in DOMAIN m : m[i].key = key

\* C12: capacity never decreases and only an inserting Lookup of a key that
\* is not stored changes it; on an empty table of the default capacity an
\* insert followed by the Remove of the same key brings size() back to 0
\* and capacity() stays at the default
C12_CapacityOnlyGrowsOnInsert ==
  [][/\ capacity_' >= capacity_
     /\ capacity_' # capacity_ =>
          (IsInsert(last') /\ ~Stored(mem, last'.key))
     /\ (/\ capacity_ = kDefaultHashMapCapacity
         /\ occupancy_ = 0
         /\ IsInsert(last')) =>
          (capacity_' = kDefaultHashMapCapacity /\ occupancy_' = 1)
     /\ (/\ capacity_ = kDefaultHashMapCapacity
         /\ occupancy_ = 1
         /\ last'.op = "Remove"
         /\ Stored(mem, last'.key)) =>
          (capacity_' = kDefaultHashMapCapacity /\ occupancy_' = 0)]_vars

\* the default table, never resized, is empty again after the Remove of the
\* key that was inserted and given a value
C12_Witness ==
  /\ last.op = "Remove" /\ last.found
  /\ capacity_ = kDefaultHashMapCapacity /\ map_ = 0
  /\ occupancy_ = 0
  /\ \E i \in DOMAIN mem : mem[i].value \in Values

\* C13: when the allocator cannot provide the new array, the inserting
\* Lookup ends in an explicit allocation failure, the table keeps its array
\* and its capacity, every pair stored before is still found with its
\* value, and occupancy < capacity
C13_AllocationFailureLeavesTableConsistent ==
  [][last'.op \in AllocFailures =>
       /\ last'.op = "bad_alloc"
       /\ map_' = map_ /\ capacity_' = capacity_
       /\ \A k \in DOMAIN hash :
            Stored(mem, k) =>
              /\ Stored(mem', k)
              /\ PresentIn(TableNext, k)
              /\ ValueIn(TableNext, k) = ValueIn(Table, k)
       /\ occupancy_' < capacity_']_vars

\* the slots on the wrapping linear-probe path from slot a up to and
\* including slot b of an array of cap slots
PathSlots(a, b, cap) ==
  {(a + d) % cap : d \in 0..((b - a + cap) % cap)}

\* C14: probe-sequence invariant.  After every completed call, for every
\* key stored at slot i, no slot on the wrapping path from the key's home
\* slot to i is empty
C14_ProbePathNonEmpty ==
  \A i \in DOMAIN mem :
    mem[i].key # NullKey =>
      \A s \in PathSlots(Home(mem[i].key), i, capacity_) :
        mem[s].key # NullKey

\* a Remove has moved an entry back and a key still sits behind its home
\* slot, its path running across the end of the array
C14_Witness ==
  /\ last.op = "Remove" /\ last.moves >= 1
  /\ \E i \in DOMAIN mem :
       /\ mem[i].key # NullKey
       /\ i < Home(mem[i].key)
       /\ Cardinality(PathSlots(Home(mem[i].key), i, capacity_)) >= 2

\* the cyclic half-open arc (p, q]: the slots walked forward from just
\* after p up to and including q
Arc(p, q, cap) == PathSlots((p + 1) % cap, q, cap)

\* C15: for all slots p, q, r of the array that a Remove has scanned, with
\* p # q, Remove's move test holds exactly when the home slot r is outside
\* the arc (p, q], which is exactly when p is on the probe path from r to q
C15_MoveTestIsArcTest ==
  (last.op = "Remove" /\ last.found) =>
    \A p, q, r \in DOMAIN mem :
      p # q =>
        /\ MoveTest(p, q, r) <=> r \notin Arc(p, q, capacity_)
        /\ MoveTest(p, q, r) <=> p \in PathSlots(r, q, capacity_)

\* a Remove on the capacity-8 table has moved one entry back and left
\* another, whose home slot is inside the arc, where it was
C15_Witness ==
  /\ last.op = "Remove" /\ last.moves = 1
  /\ capacity_ = kDefaultHashMapCapacity
  /\ occupancy_ = 2
  /\ \E i \in DOMAIN mem : mem[i].key # NullKey /\ Home(mem[i].key) = i
  /\ \E i \in DOMAIN mem : mem[i].key # NullKey /\ Home(mem[i].key) # i

\* the slots strictly between p and q, walking forward with wraparound
Between(p, q, cap) == IF p = q THEN {} ELSE Arc(p, q, cap) \ {q}

\* the loop invariant of Remove(key) on the array orig, at the loop state st
LoopInvariant(st, orig, key) ==
  LET cleared == [st.mem EXCEPT ![st.p].key = NullKey]
      t == Fields(map_, cleared, capacity_, occupancy_ - 1)
  IN  /\ st.mem[st.p].key # NullKey
      \* p is the one slot pending clearance: the other slots hold the
      \* entries of orig except the removed one, each once
      /\ \A k \in DOMAIN hash :
           LET at == {i \in DOMAIN cleared : cleared[i].key = k}
               was == {i \in DOMAIN orig : orig[i].key = k}
           IN  /\ Cardinality(at) = (IF k = key THEN 0 ELSE Cardinality(was))
               /\ \A i \in at, j \in was : cleared[i].value = orig[j].value
      /\ \A s \in Between(st.p, st.q, capacity_) :
           /\ st.mem[s].key # NullKey
           /\ BitAnd(hash[st.mem[s].key], capacity_ - 1) \in Arc(st.p, s, capacity_)
           /\ Probe(t, hash, st.mem[s].key) = s

\* C16: loop invariant of Remove.  For every stored key, at every entry of
\* the scan loop of its Remove and at the break, p is the one slot pending
\* clearance, no slot strictly between p and q is empty, and each entry in
\* a slot s strictly between them has its home slot in the arc (p, s] and
\* is found when p is cleared; the loop ends with the array and the p that
\* Remove clears
C16_RemoveLoopInvariant ==
  \A key \in DOMAIN hash :
    Stored(mem, key) =>
      LET p0 == Probe(Table, hash, key)
          states == RemoveScanStates(mem, capacity_, hash, p0, p0)
          end == states[Len(states)]
          s == RemoveScan(mem, capacity_, hash, p0, p0)
      IN  /\ \A n \in 1..Len(states) : LoopInvariant(states[n], mem, key)
          /\ end.mem[end.q].key = NullKey
          /\ end.mem = s.mem /\ end.p = s.p

\* three keys are stored; the Remove of one of them enters its loop three
\* times, leaves one entry in place and moves the other back across the end
\* of the array
C16_Witness ==
  /\ occupancy_ = 3
  /\ \E key \in DOMAIN hash :
       /\ Stored(mem, key)
       /\ LET p0 == Probe(Table, hash, key)
              states == RemoveScanStates(mem, capacity_, hash, p0, p0)
          IN  /\ Len(states) >= 4
              /\ \E n \in 1..(Len(states) - 1) :
                   /\ states[n + 1].p < states[n].p
                   /\ states[n].q # states[n].p

\* C17: after every completed call size() is the number of slots of the
\* array whose key is not the null key
C17_SizeCountsOccupiedSlots ==
  /\ size(Table) = Cardinality({i \in 0..(capacity_ - 1) : mem[i].key # NullKey})
  /\ DOMAIN mem = 0..(capacity_ - 1)

\* the table has been resized by an insert, a Remove has then moved an
\* entry, and two keys are left
C17_Witness ==
  /\ last.op = "Remove" /\ last.moves >= 1
  /\ map_ >= 1
  /\ size(Table) = 2

\* C18: Lookup(K, true) for a key K that a slot already holds returns that
\* slot's entry and changes nothing: no allocation, the same array, capacity
\* and size, the same key in every slot, K in one slot only, and the same
\* value in every slot (a value never set is read as whatever the memory
\* holds)
C18_LookupPresentIsIdempotent ==
  [][(last'.op = "Lookup" /\ last'.insert /\ Stored(mem, last'.key)) =>
       \E i \in DOMAIN mem :
         /\ mem[i].key = last'.key
         /\ last'.found /\ last'.entry = Ptr(map_, i)
         /\ last'.allocs = 0
         /\ map_' = map_ /\ capacity_' = capacity_ /\ occupancy_' = occupancy_
         /\ DOMAIN mem' = DOMAIN mem
         /\ \A j \in DOMAIN mem :
              /\ mem'[j].key = mem[j].key
              /\ \/ mem'[j].value = mem[j].value
                 \/ (j = i /\ mem[j].value = Indeterminate)
         /\ Cardinality({j \in DOMAIN mem' : mem'[j].key = last'.key}) = 1]_vars

\* Lookup(K, true) has returned, without a resize, the entry in K's home
\* slot while another key of the same home slot sits further on: K was
\* there before the call, or the other key's path would have had a gap
C18_Witness ==
  /\ last.op = "Lookup" /\ last.insert /\ last.allocs = 0
  /\ last.entry = Ptr(map_, Home(last.key))
  /\ mem[last.entry.idx].value \in Values
  /\ \E j \in Occupied(mem) :
       /\ j # last.entry.idx
       /\ Home(mem[j].key) = Home(last.key)

\* the probe loop entered at e stops within capacity steps, at the slot
\* Probe returns, which is empty or holds the key
ProbeStops(e) ==
  LET n == ProbeSteps(e.t, hash, e.key)
      home == BitAnd(hash[e.key], e.t.capacity_ - 1)
      p == (home + n) % e.t.capacity_
  IN  /\ n <= e.t.capacity_
      /\ p = Probe(e.t, hash, e.key)
      /\ e.t.mem[p].key \in {NullKey, e.key}

\* C19: every probe loop terminates.  In every reachable state and for
\* every key and hash function (the constant ones included), each Probe
\* that a Lookup or a Remove of the key makes, those of a Resize among
\* them, stops within capacity steps at an empty slot or at the key; and
\* the scan of Remove reaches an empty slot within capacity steps
C19_ProbeLoopsTerminate ==
  /\ \A key \in DOMAIN hash :
       LET es == LookupEntries(Table, hash, key, TRUE) IN
       \A n \in 1..Len(es) : es[n].at = "Probe" => ProbeStops(es[n])
  /\ \A key \in DOMAIN hash :
       Stored(mem, key) =>
         LET p0 == Probe(Table, hash, key)
             states == RemoveScanStates(mem, capacity_, hash, p0, p0)
             end == states[Len(states)]
         IN  /\ Len(states) - 1 <= capacity_
             /\ end.mem[end.q].key = NullKey

\* every key has the same hash value, three of them fill all but one slot
\* of the array, the last one inserted was probed for across the end of
\* the array, and the Remove of the first scans all the others
C19_Witness ==
  /\ \A j, k \in DOMAIN hash : hash[j] = hash[k]
  /\ IsInsert(last)
  /\ occupancy_ = capacity_ - 1 /\ occupancy_ = 3
  /\ ProbeSteps(Table, hash, last.key) = 2
  /\ Probe(Table, hash, last.key) < Home(last.key)
  /\ \E key \in DOMAIN hash :
       /\ mem[Home(key)].key = key
       /\ Len(RemoveScanStates(mem, capacity_, hash, Home(key), Home(key))) - 1
            = occupancy_

\* the assertions at the entry e: those of Probe (the key is not the null
\* key, capacity_ is a power of two, the home slot is in the array,
\* occupancy_ < capacity_) and that of Initialize (a power-of-two capacity)
AssertionsHold(e) ==
  IF e.at = "Initialize"
  THEN IsPowerOfTwo(e.capacity) /\ e.capacity # 0
  ELSE LET home == BitAnd(hash[e.key], e.t.capacity_ - 1) IN
       /\ e.key # NullKey
       /\ IsPowerOfTwo(e.t.capacity_)
       /\ 0 <= home /\ home < e.t.capacity_
       /\ e.t.occupancy_ < e.t.capacity_

\* C20: no assertion fails.  In every reachable state and for every key,
\* the assertions hold at every entry to Probe and to Initialize that a
\* Lookup of the key makes (the Probes while Resize re-inserts the entries
\* and the Probe after Resize included; the first Probe is also that of
\* Lookup(key, false) and of Remove), and occupancy < capacity holds at the
\* assertion of Remove, which a stored key reaches
C20_AssertionsHold ==
  \A key \in DOMAIN hash :
    LET es == LookupEntries(Table, hash, key, TRUE) IN
    /\ \A n \in 1..Len(es) : AssertionsHold(es[n])
    /\ Stored(mem, key) => occupancy_ < capacity_

\* an insert has just resized the capacity-1 table, and the insert of
\* another key will resize again, entering Initialize once and Probe four
\* times, twice for entries that are re-inserted
C20_Witness ==
  /\ IsInsert(last) /\ last.allocs = 1
  /\ capacity_ = 2 /\ occupancy_ = 1
  /\ \E key \in DOMAIN hash :
       LET es == LookupEntries(Table, hash, key, TRUE) IN
       /\ Len(es) = 5
       /\ es[2].at = "Initialize" /\ es[2].capacity = 4
       /\ es[5].t.capacity_ = 4 /\ es[5].t.occupancy_ = 2

\* C21: after every completed call, no key other than the null key is held
\* by more than one slot of the array
C21_NoDuplicateKeys ==
  \A i, j \in DOMAIN mem :
    (mem[i].key # NullKey /\ mem[i].key = mem[j].key) => i = j

\* the table has been resized, and a Remove has then copied two entries
\* back, leaving two different keys in two slots
C21_Witness ==
  /\ last.op = "Remove" /\ last.moves = 2
  /\ map_ >= 1
  /\ \E i, j \in Occupied(mem) : mem[i].key # mem[j].key

\* C22: the rehash scan of Resize stays inside the old array.  For every
\* insert that resizes, the loop reads only slots below the old capacity,
\* in increasing order, re-inserts exactly n = old occupancy entries, and
\* when it ends, which is when the old array is released, the new array
\* holds every entry of the old one
C22_RehashStaysInOldArray ==
  \A key \in DOMAIN hash :
    ReachesResize(key) =>
      LET t1 == InsertBeforeResize(Table, hash, key)
          reads == RehashReads(t1.mem, 0, t1.occupancy_)
      IN  /\ \A n \in 1..Len(reads) : reads[n] = n - 1 /\ reads[n] < t1.capacity_
          /\ Cardinality({n \in 1..Len(reads) : t1.mem[reads[n]].key # NullKey})
               = t1.occupancy_
          /\ LET t2 == Resize(t1, hash) IN
             /\ t2.map_ # t1.map_
             /\ t2.occupancy_ = t1.occupancy_
             /\ \A i \in Occupied(t1.mem) :
                  \E j \in Occupied(t2.mem) : t2.mem[j] = t1.mem[i]

\* the insert of the seventh key has resized the capacity-8 table; a key
\* whose home slot was the last one was in the old array, so the scan
\* passed the one empty slot and read on to the last slot
C22_Witness ==
  /\ last.op = "Put" /\ last.allocs = 1
  /\ capacity_ = 2 * kDefaultHashMapCapacity
  /\ occupancy_ = kDefaultHashMapCapacity - 1
  /\ \E k \in DOMAIN hash :
       /\ Stored(mem, k)
       /\ BitAnd(hash[k], kDefaultHashMapCapacity - 1) = kDefaultHashMapCapacity - 1
  /\ \E k \in DOMAIN hash : Stored(mem, k) /\ BitAnd(hash[k], capacity_ - 1) = 0

====
